---- MODULE Spec2Model ----
(***************************************************************************)
(* Jelly streaming codec of jelly-ts: JellyStreamWriter (stream_writer.ts) *)
(* turns RDF/JS quads into wire rows, JellyStreamParser (stream_parser.ts) *)
(* turns wire rows back into quads.                                        *)
(*                                                                         *)
(* Spec        : one writer, the caller's concatenation of its outputs,    *)
(*               and one parser that is fed those chunks in order.         *)
(* DecoderSpec : one parser that is handed arbitrary decoded rows through  *)
(*               processRow, and reset().                                  *)
(***************************************************************************)
EXTENDS Integers, Sequences, FiniteSets, TLC

VARIABLES
    writer,      \* the JellyStreamWriter object (its private fields)
    written,     \* the quads passed to write so far, in call order
    calls,       \* the Uint8Array[] returned by each write call, in call order
    parser,      \* the JellyStreamParser object (its private fields)
    pos,         \* number of chunks the parse loop has read from the stream
    results,     \* the quads yielded by parse / returned by processRow, in order
    lastRow,     \* the row most recently handed to processRow (<<>> if none)
    lastResult,  \* how that processRow call ended
    lastQuad,    \* the quad most recently returned since construction or reset
    lastCall,    \* the method most recently called on the parser
    driver,      \* one call of parser.parse(stream): the stream and the generator
    stmtRows     \* statement rows processed since construction or reset (capped)

vars == <<writer, written, calls, parser, pos, results, lastRow, lastResult,
          lastQuad, lastCall, driver, stmtRows>>

(***************************************************************************)
(* Bounds                                                                  *)
(***************************************************************************)
MaxWrites == 2
StmtRowCap == 2

(***************************************************************************)
(* Optional values: a JavaScript `undefined` field is <<>>, a set one <<v>>*)
(***************************************************************************)
None == <<>>
Some(v) == <<v>>
IsSet(o) == o # <<>>
Val(o) == o[1]

(***************************************************************************)
(* Maps (JavaScript Map): a function on the keys that were set             *)
(***************************************************************************)
EmptyMap == <<>>
MapHas(m, k) == k \in DOMAIN m
MapSet(m, k, v) == [x \in (DOMAIN m) \cup {k} |-> IF x = k THEN v ELSE m[x]]
\* `map.get(k) || ""` : a missing key, like an empty string, gives ""
GetOrEmpty(m, k) == IF k \in DOMAIN m THEN m[k] ELSE ""

(***************************************************************************)
(* RDF/JS terms, as the n3 DataFactory builds them.                        *)
(***************************************************************************)
XSD_STRING == "http://www.w3.org/2001/XMLSchema#string"
XSD_INTEGER == "http://www.w3.org/2001/XMLSchema#integer"
XSD_BOOLEAN == "http://www.w3.org/2001/XMLSchema#boolean"
RDF_LANGSTRING == "http://www.w3.org/1999/02/22-rdf-syntax-ns#langString"

Term(tt, v, lang, dt, parts) ==
    [termType |-> tt, value |-> v, language |-> lang, datatype |-> dt, parts |-> parts]

\* a JavaScript `undefined` where a Term is expected
Undefined == Term("undefined", "", "", "", <<>>)
IsDefined(t) == t.termType # "undefined"

namedNode(v) == Term("NamedNode", v, "", "", <<>>)
blankNode(label) == Term("BlankNode", label, "", "", <<>>)
defaultGraph == Term("DefaultGraph", "", "", "", <<>>)
variable(name) == Term("Variable", name, "", "", <<>>)
\* literal(lex): a plain literal has datatype xsd:string
literalPlain(lex) == Term("Literal", lex, "", XSD_STRING, <<>>)
\* literal(lex, "tag"): a language-tagged literal has datatype rdf:langString
literalLang(lex, lang) == Term("Literal", lex, lang, RDF_LANGSTRING, <<>>)
\* literal(lex, namedNode(dt)): an empty datatype IRI gives a plain literal
literalTyped(lex, dt) ==
    IF dt = "" THEN literalPlain(lex) ELSE Term("Literal", lex, "", dt, <<>>)

\* JavaScript `a || b` on optional Terms: every Term object is truthy
OrElse(a, b) == IF IsDefined(a) THEN a ELSE b

\* quad(subject, predicate, object, graph?): RDF/JS factories put a quad whose
\* graph is undefined in the default graph (convertTerm relies on it when it
\* calls quad(s, p, o) for a triple term); the other three are stored as given.
quad(s, p, o, g) ==
    [subject |-> s, predicate |-> p, object |-> o, graph |-> OrElse(g, defaultGraph)]

\* a quad used as a term (RDF-star quoted triple)
quadTerm(s, p, o) == Term("Quad", "", "", "", <<s, p, o, defaultGraph>>)

(***************************************************************************)
(* Wire rows (RdfStreamRow and the messages it carries).  A statement      *)
(* message holds one slot per role; the slot's fields are the message's    *)
(* fields with that prefix: s.Iri is sIri, g.DefaultGraph is gDefaultGraph.*)
(***************************************************************************)
EmptySlot == [Iri |-> None, Bnode |-> None, Literal |-> None,
              DefaultGraph |-> None, TripleTerm |-> None]
IriSlot(prefixId, nameId) ==
    [EmptySlot EXCEPT !.Iri = Some([prefixId |-> prefixId, nameId |-> nameId])]
BnodeSlot(label) == [EmptySlot EXCEPT !.Bnode = Some(label)]
LiteralSlot(lit) == [EmptySlot EXCEPT !.Literal = Some(lit)]
DefaultGraphSlot == [EmptySlot EXCEPT !.DefaultGraph = Some("{}")]
TripleTermSlot(s, p, o) ==
    [EmptySlot EXCEPT !.TripleTerm = Some([s |-> s, p |-> p, o |-> o, g |-> EmptySlot])]

RdfLiteral(lex, langtag, datatype) ==
    [lex |-> lex, langtag |-> langtag, datatype |-> datatype]

EmptyRow == [options |-> None, prefix |-> None, name |-> None,
             datatype |-> None, triple |-> None, quad |-> None]
OptionsRow(o) == [EmptyRow EXCEPT !.options = Some(o)]
PrefixRow(id, v) == [EmptyRow EXCEPT !.prefix = Some([id |-> id, value |-> v])]
NameRow(id, v) == [EmptyRow EXCEPT !.name = Some([id |-> id, value |-> v])]
DatatypeRow(id, v) == [EmptyRow EXCEPT !.datatype = Some([id |-> id, value |-> v])]
TripleRow(s, p, o) ==
    [EmptyRow EXCEPT !.triple = Some([s |-> s, p |-> p, o |-> o, g |-> EmptySlot])]
QuadRow(s, p, o, g) ==
    [EmptyRow EXCEPT !.quad = Some([s |-> s, p |-> p, o |-> o, g |-> g])]

IsStatementRow(row) == IsSet(row.triple) \/ IsSet(row.quad)
IsOptionsRow(row) == IsSet(row.options)
IsUpdateRow(row) == IsSet(row.prefix) \/ IsSet(row.name) \/ IsSet(row.datatype)

(***************************************************************************)
(* The binary message primitive: RdfStreamRow is a oneof, so a buffer      *)
(* carries the tag of the one field that is set and that field's message;  *)
(* decoding builds a row with that field alone.                            *)
(***************************************************************************)
RowTags == <<"options", "prefix", "name", "datatype", "triple", "quad">>

RowField(row, tag) ==
    CASE tag = "options" -> row.options
      [] tag = "prefix" -> row.prefix
      [] tag = "name" -> row.name
      [] tag = "datatype" -> row.datatype
      [] tag = "triple" -> row.triple
      [] tag = "quad" -> row.quad

\* the last field set wins, as the fields of a oneof are written in tag order
SetTags(row) == {i \in 1..Len(RowTags) : IsSet(RowField(row, RowTags[i]))}
LastTag(row) == CHOOSE i \in SetTags(row) : \A j \in SetTags(row) : j <= i

RowEncode(row) ==
    IF SetTags(row) = {} THEN [tag |-> 0, body |-> None]
    ELSE [tag |-> LastTag(row), body |-> RowField(row, RowTags[LastTag(row)])]

RowDecode(buf) ==
    CASE buf.tag = 0 -> EmptyRow
      [] buf.tag = 1 -> [EmptyRow EXCEPT !.options = buf.body]
      [] buf.tag = 2 -> [EmptyRow EXCEPT !.prefix = buf.body]
      [] buf.tag = 3 -> [EmptyRow EXCEPT !.name = buf.body]
      [] buf.tag = 4 -> [EmptyRow EXCEPT !.datatype = buf.body]
      [] buf.tag = 5 -> [EmptyRow EXCEPT !.triple = buf.body]
      [] buf.tag = 6 -> [EmptyRow EXCEPT !.quad = buf.body]

(***************************************************************************)
(* JellyStreamWriter                                                       *)
(***************************************************************************)
PHYSICAL_STREAM_TYPE_TRIPLES == "TRIPLES"
PHYSICAL_STREAM_TYPE_QUADS == "QUADS"

\* constructor(options?): the fields the caller may give, with their defaults
WriterOptions(physicalType, generalizedStatements) ==
    [streamName |-> "Jelly-TS Stream",
     physicalType |-> physicalType,
     generalizedStatements |-> generalizedStatements,
     rdfStar |-> FALSE,
     maxNameTableSize |-> 128,
     maxPrefixTableSize |-> 128,
     maxDatatypeTableSize |-> 64,
     logicalType |-> "UNSPECIFIED",
     version |-> 1]

NewWriter(options) ==
    [prefixTable |-> EmptyMap, nameTable |-> EmptyMap, datatypeTable |-> EmptyMap,
     prefixCounter |-> 1, nameCounter |-> 1, datatypeCounter |-> 1,
     optionsSent |-> FALSE, options |-> options]

\* write's running state: the writer object and the local lookupRows array
WriteCtx(w) == [w |-> w, lookupRows |-> <<>>]

\* mutant: the options row is pushed but optionsSent is never set
sendOptions_Always(w) == [w |-> w, rows |-> <<OptionsRow(w.options)>>]

\* `if (!this.optionsSent) { buffers.push(options row); this.optionsSent = true }`
sendOptions(w) ==
    IF ~w.optionsSent
    THEN [w |-> [w EXCEPT !.optionsSent = TRUE], rows |-> <<OptionsRow(w.options)>>]
    ELSE [w |-> w, rows |-> <<>>]

\* mutant: `this.nameCounter` is read but not incremented
ensureIri_NoIncrement(ctx, val) ==
    LET c == IF ~MapHas(ctx.w.nameTable, val)
             THEN [w |-> [ctx.w EXCEPT !.nameTable = MapSet(@, val, ctx.w.nameCounter)],
                   lookupRows |-> Append(ctx.lookupRows,
                                         NameRow(ctx.w.nameCounter, val))]
             ELSE ctx
    IN [ctx |-> c, slot |-> IriSlot(0, c.w.nameTable[val])]

\* mutant: the update row is pushed whether or not the value was registered
ensureIri_AlwaysEmit(ctx, val) ==
    LET isNew == ~MapHas(ctx.w.nameTable, val)
        id == IF isNew THEN ctx.w.nameCounter ELSE ctx.w.nameTable[val]
        w1 == IF isNew
              THEN [ctx.w EXCEPT !.nameTable = MapSet(@, val, ctx.w.nameCounter),
                                 !.nameCounter = @ + 1]
              ELSE ctx.w
    IN [ctx |-> [w |-> w1, lookupRows |-> Append(ctx.lookupRows, NameRow(id, val))],
        slot |-> IriSlot(0, id)]

\* ensureIri(term): registers term.value in the name table when it is new and
\* returns { prefixId: 0, nameId }
ensureIri(ctx, val) ==
    LET c == IF ~MapHas(ctx.w.nameTable, val)
             THEN [w |-> [ctx.w EXCEPT !.nameTable = MapSet(@, val, ctx.w.nameCounter),
                                       !.nameCounter = @ + 1],
                   lookupRows |-> Append(ctx.lookupRows,
                                         NameRow(ctx.w.nameCounter, val))]
             ELSE ctx
    IN [ctx |-> c, slot |-> IriSlot(0, c.w.nameTable[val])]

\* ensureDatatype(val): the same for the datatype table; returns the id
ensureDatatype(ctx, val) ==
    LET c == IF ~MapHas(ctx.w.datatypeTable, val)
             THEN [w |-> [ctx.w EXCEPT !.datatypeTable = MapSet(@, val, ctx.w.datatypeCounter),
                                       !.datatypeCounter = @ + 1],
                   lookupRows |-> Append(ctx.lookupRows,
                                         DatatypeRow(ctx.w.datatypeCounter, val))]
             ELSE ctx
    IN [ctx |-> c, id |-> c.w.datatypeTable[val]]

\* mutant: the comparison with the XSD string IRI is missing
convertLiteral_NoStringTest(ctx, lit) ==
    IF lit.language # ""
    THEN [ctx |-> ctx, slot |-> LiteralSlot(RdfLiteral(lit.value, Some(lit.language), None))]
    ELSE IF lit.datatype # ""
    THEN LET e == ensureDatatype(ctx, lit.datatype)
         IN [ctx |-> e.ctx, slot |-> LiteralSlot(RdfLiteral(lit.value, None, Some(e.id)))]
    ELSE [ctx |-> ctx, slot |-> LiteralSlot(RdfLiteral(lit.value, None, None))]

\* convertLiteral(lit, ensureDatatype)
convertLiteral(ctx, lit) ==
    IF lit.language # ""
    THEN [ctx |-> ctx, slot |-> LiteralSlot(RdfLiteral(lit.value, Some(lit.language), None))]
    ELSE IF lit.datatype # "" /\ lit.datatype # XSD_STRING
    THEN LET e == ensureDatatype(ctx, lit.datatype)
         IN [ctx |-> e.ctx, slot |-> LiteralSlot(RdfLiteral(lit.value, None, Some(e.id)))]
    ELSE [ctx |-> ctx, slot |-> LiteralSlot(RdfLiteral(lit.value, None, None))]

\* sIri / sBnode (sLiteral and sTripleTerm are always undefined)
subjectSlot(ctx, t) ==
    CASE t.termType = "NamedNode" -> ensureIri(ctx, t.value)
      [] t.termType = "BlankNode" -> [ctx |-> ctx, slot |-> BnodeSlot(t.value)]
      [] OTHER -> [ctx |-> ctx, slot |-> EmptySlot]

\* pIri
predicateSlot(ctx, t) ==
    CASE t.termType = "NamedNode" -> ensureIri(ctx, t.value)
      [] OTHER -> [ctx |-> ctx, slot |-> EmptySlot]

\* oIri / oBnode / oLiteral
objectSlot(ctx, t) ==
    CASE t.termType = "NamedNode" -> ensureIri(ctx, t.value)
      [] t.termType = "BlankNode" -> [ctx |-> ctx, slot |-> BnodeSlot(t.value)]
      [] t.termType = "Literal" -> convertLiteral(ctx, t)
      [] OTHER -> [ctx |-> ctx, slot |-> EmptySlot]

\* mutant: gDefaultGraph is never set
graphSlot_NoDefault(ctx, t) ==
    CASE t.termType = "NamedNode" -> ensureIri(ctx, t.value)
      [] t.termType = "BlankNode" -> [ctx |-> ctx, slot |-> BnodeSlot(t.value)]
      [] OTHER -> [ctx |-> ctx, slot |-> EmptySlot]

\* mutant: gBnode is never set
graphSlot_NoBnode(ctx, t) ==
    CASE t.termType = "NamedNode" -> ensureIri(ctx, t.value)
      [] t.termType = "DefaultGraph" -> [ctx |-> ctx, slot |-> DefaultGraphSlot]
      [] OTHER -> [ctx |-> ctx, slot |-> EmptySlot]

\* gIri / gBnode / gDefaultGraph
graphSlot(ctx, t) ==
    CASE t.termType = "NamedNode" -> ensureIri(ctx, t.value)
      [] t.termType = "BlankNode" -> [ctx |-> ctx, slot |-> BnodeSlot(t.value)]
      [] t.termType = "DefaultGraph" -> [ctx |-> ctx, slot |-> DefaultGraphSlot]
      [] OTHER -> [ctx |-> ctx, slot |-> EmptySlot]

\* the statement row: `const quadRow: RdfStreamRow = { quad: rdfQuad }`
statementRow(w, s, p, o, g) == QuadRow(s, p, o, g)

\* mutant: the statement row is pushed before the lookup rows
assemble_RowFirst(optionRows, lookupRows, quadRow) ==
    optionRows \o <<quadRow>> \o lookupRows

\* mutant: the lookup rows are pushed before the options row
assemble_LookupsFirst(optionRows, lookupRows, quadRow) ==
    lookupRows \o optionRows \o <<quadRow>>

\* the order of the returned buffers: options, lookup rows, statement row
assemble(optionRows, lookupRows, quadRow) == optionRows \o lookupRows \o <<quadRow>>

EncodeAll(rows) == [i \in 1..Len(rows) |-> RowEncode(rows[i])]

\* mutant: the predicate is converted before the subject
write_PredicateFirst(w, q) ==
    LET opt == sendOptions(w)
        p == predicateSlot(WriteCtx(opt.w), q.predicate)
        s == subjectSlot(p.ctx, q.subject)
        o == objectSlot(s.ctx, q.object)
        g == graphSlot(o.ctx, q.graph)
        row == statementRow(g.ctx.w, s.slot, p.slot, o.slot, g.slot)
    IN [w |-> g.ctx.w,
        buffers |-> EncodeAll(assemble(opt.rows, g.ctx.lookupRows, row))]

\* write(quad): the object after the call and the buffers it returns
write(w, q) ==
    LET opt == sendOptions(w)
        s == subjectSlot(WriteCtx(opt.w), q.subject)
        p == predicateSlot(s.ctx, q.predicate)
        o == objectSlot(p.ctx, q.object)
        g == graphSlot(o.ctx, q.graph)
        row == statementRow(g.ctx.w, s.slot, p.slot, o.slot, g.slot)
    IN [w |-> g.ctx.w,
        buffers |-> EncodeAll(assemble(opt.rows, g.ctx.lookupRows, row))]

(***************************************************************************)
(* JellyStreamParser                                                       *)
(***************************************************************************)
\* mutant: the name table is not cleared
reset_KeepsNames(p) ==
    [prefixTable |-> EmptyMap, nameTable |-> p.nameTable, datatypeTable |-> EmptyMap,
     previousSubject |-> Undefined, previousPredicate |-> Undefined,
     previousObject |-> Undefined, previousGraph |-> Undefined]

\* reset(): the three tables cleared, the four previous terms undefined
reset(p) ==
    [prefixTable |-> EmptyMap, nameTable |-> EmptyMap, datatypeTable |-> EmptyMap,
     previousSubject |-> Undefined, previousPredicate |-> Undefined,
     previousObject |-> Undefined, previousGraph |-> Undefined]

\* constructor(): field initialisers, then this.reset()
NewParser == reset([prefixTable |-> EmptyMap, nameTable |-> EmptyMap,
                    datatypeTable |-> EmptyMap])

\* resolveIri(iri): the local `prefix` is computed and never used; the IRI is
\* (prefixTable.get(prefixId) || "") + (nameTable.get(nameId) || "")
resolveIri(p, iri) ==
    namedNode(GetOrEmpty(p.prefixTable, iri.prefixId)
              \o GetOrEmpty(p.nameTable, iri.nameId))

\* resolveLiteral(lit): `if (lit.datatype)` and `if (lit.langtag)` are
\* truthiness tests, so datatype 0 and langtag "" count as not set
resolveLiteral(p, lit) ==
    IF IsSet(lit.datatype) /\ Val(lit.datatype) # 0
    THEN literalTyped(lit.lex, GetOrEmpty(p.datatypeTable, Val(lit.datatype)))
    ELSE IF IsSet(lit.langtag) /\ Val(lit.langtag) # ""
    THEN literalLang(lit.lex, Val(lit.langtag))
    ELSE literalPlain(lit.lex)

\* convertTerm(msg, prefix): the oneof checks in the code's order; a blank
\* node label is tested for truthiness; Undefined stands for "repeated term"
RECURSIVE convertTerm(_, _, _)
convertTerm(p, slot, role) ==
    IF IsSet(slot.Iri) THEN resolveIri(p, Val(slot.Iri))
    ELSE IF IsSet(slot.Bnode) /\ Val(slot.Bnode) # "" THEN blankNode(Val(slot.Bnode))
    ELSE IF IsSet(slot.Literal) THEN resolveLiteral(p, Val(slot.Literal))
    ELSE IF role = "g" /\ IsSet(slot.DefaultGraph) THEN defaultGraph
    ELSE IF IsSet(slot.TripleTerm)
    THEN LET t == Val(slot.TripleTerm)
         IN quadTerm(convertTerm(p, t.s, "s"), convertTerm(p, t.p, "p"),
                     convertTerm(p, t.o, "o"))
    ELSE Undefined

\* the value a slot gets: `this.convertTerm(q, "s") || this.previousSubject!`
fill(converted, previous) == OrElse(converted, previous)

\* the four assignments to this.previous*
remember(p, subject, predicate, object, graph) ==
    [p EXCEPT !.previousSubject = subject, !.previousPredicate = predicate,
              !.previousObject = object, !.previousGraph = graph]

convertTriple(p, triple) ==
    LET subject == fill(convertTerm(p, triple.s, "s"), p.previousSubject)
        predicate == fill(convertTerm(p, triple.p, "p"), p.previousPredicate)
        object == fill(convertTerm(p, triple.o, "o"), p.previousObject)
        graph == defaultGraph
    IN [p |-> remember(p, subject, predicate, object, graph),
        quad |-> quad(subject, predicate, object, graph)]

convertQuad(p, q) ==
    LET subject == fill(convertTerm(p, q.s, "s"), p.previousSubject)
        predicate == fill(convertTerm(p, q.p, "p"), p.previousPredicate)
        object == fill(convertTerm(p, q.o, "o"), p.previousObject)
        graph == fill(convertTerm(p, q.g, "g"), p.previousGraph)
    IN [p |-> remember(p, subject, predicate, object, graph),
        quad |-> quad(subject, predicate, object, graph)]

\* mutant: an options row is taken as the start of a new stream and forgets
\* the previous terms
updateLookups_OptionsForget(p, row) ==
    LET p0 == IF IsSet(row.options)
              THEN [p EXCEPT !.previousSubject = Undefined, !.previousPredicate = Undefined,
                             !.previousObject = Undefined, !.previousGraph = Undefined]
              ELSE p
        p1 == IF IsSet(row.prefix)
              THEN [p0 EXCEPT !.prefixTable = MapSet(@, Val(row.prefix).id, Val(row.prefix).value)]
              ELSE p0
        p2 == IF IsSet(row.name)
              THEN [p1 EXCEPT !.nameTable = MapSet(@, Val(row.name).id, Val(row.name).value)]
              ELSE p1
    IN IF IsSet(row.datatype)
       THEN [p2 EXCEPT !.datatypeTable = MapSet(@, Val(row.datatype).id, Val(row.datatype).value)]
       ELSE p2

\* step 1 of processRow: the lookup updates
updateLookups(p, row) ==
    LET p1 == IF IsSet(row.prefix)
              THEN [p EXCEPT !.prefixTable = MapSet(@, Val(row.prefix).id, Val(row.prefix).value)]
              ELSE p
        p2 == IF IsSet(row.name)
              THEN [p1 EXCEPT !.nameTable = MapSet(@, Val(row.name).id, Val(row.name).value)]
              ELSE p1
    IN IF IsSet(row.datatype)
       THEN [p2 EXCEPT !.datatypeTable = MapSet(@, Val(row.datatype).id, Val(row.datatype).value)]
       ELSE p2

\* processRow(row): the object after the call and the outcome.  No path of
\* processRow or of what it calls throws, so the outcome is always a return:
\* of a quad (result = <<q>>) or of null (result = <<>>).
Returned(result) == [threw |-> FALSE, result |-> result]

processRow(p, row) ==
    LET p1 == updateLookups(p, row)
    IN IF IsSet(row.triple)
       THEN LET r == convertTriple(p1, Val(row.triple))
            IN [p |-> r.p, outcome |-> Returned(Some(r.quad))]
       ELSE IF IsSet(row.quad)
       THEN LET r == convertQuad(p1, Val(row.quad))
            IN [p |-> r.p, outcome |-> Returned(Some(r.quad))]
       ELSE [p |-> p1, outcome |-> Returned(None)]

(***************************************************************************)
(* The quads the producer writes                                           *)
(***************************************************************************)
ExS == "http://ex.org/s"
ExP == "http://ex.org/p"
ExP2 == "http://ex.org/p2"
ExG == "http://ex.org/g"

Subjects == {namedNode(ExS), blankNode("b1")}
Predicates == {namedNode(ExP)}
Objects == {namedNode(ExS), blankNode("b1"), literalPlain("x"), literalLang("x", "en"),
            literalTyped("42", XSD_INTEGER), literalTyped("true", XSD_BOOLEAN)}
Graphs == {defaultGraph, namedNode(ExS), blankNode("b1")}

\* the two quads of the round-trip test (stream.ts)
TestQ1 == quad(namedNode(ExS), namedNode(ExP), literalPlain("Hello Jelly"), defaultGraph)
TestQ2 == quad(namedNode(ExS), namedNode(ExP2), literalPlain("Another Value"), namedNode(ExG))

\* quads of standard RDF: IRI or blank-node subject, IRI predicate, IRI,
\* blank-node or literal object, default or named graph
StandardQuads ==
    {quad(s, namedNode(ExP), literalPlain("x"), defaultGraph) : s \in Subjects}
        \cup {quad(namedNode(ExS), p, o, defaultGraph) : p \in Predicates, o \in Objects}
        \cup {quad(namedNode(ExS), namedNode(ExP), literalPlain("x"), g) : g \in Graphs}
        \cup {quad(blankNode("b1"), namedNode(ExP), blankNode("b1"), blankNode("b1")),
              TestQ1, TestQ2}

\* quads the RDF/JS types also admit: generalized statements and variables
GeneralizedQuads ==
    {quad(literalPlain("x"), namedNode(ExP), literalPlain("x"), defaultGraph),
     quad(namedNode(ExS), blankNode("b1"), literalPlain("x"), defaultGraph),
     quad(namedNode(ExS), literalPlain("x"), namedNode(ExS), defaultGraph)}
OtherQuads ==
    {quad(namedNode(ExS), namedNode(ExP), variable("v"), defaultGraph),
     quad(namedNode(ExS), namedNode(ExP), literalPlain("x"), variable("v"))}

Quads == StandardQuads \cup GeneralizedQuads \cup OtherQuads

IsStandardQuad(q) ==
    /\ q.subject.termType \in {"NamedNode", "BlankNode"}
    /\ q.predicate.termType = "NamedNode"
    /\ q.object.termType \in {"NamedNode", "BlankNode", "Literal"}
    /\ q.graph.termType \in {"DefaultGraph", "NamedNode", "BlankNode"}

\* ceilings a caller gives that two writes can pass
SmallNameCeiling == 2
SmallDatatypeCeiling == 1

\* `options.maxNameTableSize || 128`, `options.maxDatatypeTableSize || 64`
\* with the caller's values given
WithCeilings(options, names, datatypes) ==
    [options EXCEPT !.maxNameTableSize = names, !.maxDatatypeTableSize = datatypes]

OptionChoices ==
    {WriterOptions(PHYSICAL_STREAM_TYPE_QUADS, FALSE),
     WriterOptions(PHYSICAL_STREAM_TYPE_TRIPLES, FALSE),
     WithCeilings(WriterOptions(PHYSICAL_STREAM_TYPE_QUADS, TRUE),
                  SmallNameCeiling, SmallDatatypeCeiling)}

(***************************************************************************)
(* Spec: writer, stream, parse loop                                        *)
(***************************************************************************)
\* parse(stream) before it is called: no stream, no reader, nothing handed on
NoDriver ==
    [stream |-> <<>>, state |-> "suspendedStart", locked |-> FALSE,
     fed |-> <<>>, yieldedAt |-> <<>>,
     returnAt |-> -1, returnFrom |-> "none", parserAt |-> NewParser]

RECURSIVE Flatten(_)
Flatten(ss) == IF ss = <<>> THEN <<>> ELSE Head(ss) \o Flatten(Tail(ss))

\* `[...writer.write(q1), ...writer.write(q2)]`: the chunks put on the stream
chunks == Flatten(calls)

Bump(n) == IF n < StmtRowCap THEN n + 1 ELSE n

Init ==
    /\ writer \in {NewWriter(o) : o \in OptionChoices}
    /\ written = <<>>
    /\ calls = <<>>
    /\ parser = NewParser
    /\ pos = 0
    /\ results = <<>>
    /\ lastRow = None
    /\ lastResult = Returned(None)
    /\ lastQuad = None
    /\ lastCall = "none"
    /\ driver = NoDriver
    /\ stmtRows = 0

\* the producer calls writer.write(q)
Write(q) ==
    /\ Len(written) < MaxWrites
    /\ LET r == write(writer, q)
       IN /\ writer' = r.w
          /\ calls' = Append(calls, r.buffers)
    /\ written' = Append(written, q)
    /\ UNCHANGED <<parser, pos, results, lastRow, lastResult, lastQuad, lastCall,
                   driver, stmtRows>>

\* one turn of parse's loop: read a chunk, decode it, processRow, yield
Feed ==
    /\ pos < Len(chunks)
    /\ LET row == RowDecode(chunks[pos + 1])
           r == processRow(parser, row)
       IN /\ parser' = r.p
          /\ lastRow' = Some(row)
          /\ lastResult' = r.outcome
          /\ results' = IF IsSet(r.outcome.result)
                        THEN Append(results, Val(r.outcome.result))
                        ELSE results
          /\ lastQuad' = IF IsSet(r.outcome.result) THEN r.outcome.result ELSE lastQuad
          /\ stmtRows' = IF IsStatementRow(row) THEN Bump(stmtRows) ELSE stmtRows
    /\ pos' = pos + 1
    /\ lastCall' = "processRow"
    /\ UNCHANGED <<writer, written, calls, driver>>

Next ==
    \/ \E q \in Quads : Write(q)
    \/ Feed

Spec == Init /\ [][Next]_vars

(***************************************************************************)
(* DecoderSpec: processRow on rows of any origin, and reset()              *)
(***************************************************************************)
DefaultOptions == WriterOptions(PHYSICAL_STREAM_TYPE_QUADS, FALSE)

UpdateRows ==
    {OptionsRow(DefaultOptions),
     PrefixRow(0, "http://"), PrefixRow(1, "http://ex.org/"),
     NameRow(1, ExS), NameRow(2, ExP),
     DatatypeRow(1, XSD_INTEGER)}

LitTyped == LiteralSlot(RdfLiteral("x", None, Some(1)))
LitLang == LiteralSlot(RdfLiteral("x", Some("en"), None))
LitPlain == LiteralSlot(RdfLiteral("x", None, None))
LitEmpty == LiteralSlot(RdfLiteral("", None, None))

StatementRows ==
    {QuadRow(EmptySlot, EmptySlot, EmptySlot, EmptySlot),
     QuadRow(IriSlot(0, 1), IriSlot(1, 2), LitTyped, DefaultGraphSlot),
     QuadRow(BnodeSlot("b1"), IriSlot(0, 2), LitLang, IriSlot(0, 2)),
     QuadRow(EmptySlot, IriSlot(0, 1),
             TripleTermSlot(IriSlot(0, 1), IriSlot(0, 2), BnodeSlot("")), EmptySlot),
     QuadRow(IriSlot(0, 1), EmptySlot, EmptySlot, DefaultGraphSlot),
     QuadRow(BnodeSlot(""), IriSlot(0, 1), LitEmpty, DefaultGraphSlot),
     QuadRow(IriSlot(0, 1), IriSlot(0, 2), LitPlain, BnodeSlot("b1")),
     TripleRow(IriSlot(0, 1), IriSlot(0, 2), LitTyped),
     TripleRow(EmptySlot, EmptySlot, EmptySlot),
     TripleRow(BnodeSlot("b1"), IriSlot(1, 2), EmptySlot)}

DecoderRows == UpdateRows \cup StatementRows

DecoderInit ==
    /\ writer = NewWriter(DefaultOptions)
    /\ written = <<>>
    /\ calls = <<>>
    /\ parser = NewParser
    /\ pos = 0
    /\ results = <<>>
    /\ lastRow = None
    /\ lastResult = Returned(None)
    /\ lastQuad = None
    /\ lastCall = "none"
    /\ driver = NoDriver
    /\ stmtRows = 0

\* a caller hands `row` to parser.processRow
ProcessRow(row) ==
    /\ LET r == processRow(parser, row)
       IN /\ parser' = r.p
          /\ lastResult' = r.outcome
          /\ lastQuad' = IF IsSet(r.outcome.result) THEN r.outcome.result ELSE lastQuad
    /\ lastRow' = Some(row)
    /\ stmtRows' = IF IsStatementRow(row) THEN Bump(stmtRows) ELSE stmtRows
    /\ lastCall' = "processRow"
    /\ UNCHANGED <<writer, written, calls, pos, results, driver>>

\* a caller calls parser.reset()
Reset ==
    /\ parser' = reset(parser)
    /\ lastRow' = None
    /\ lastResult' = Returned(None)
    /\ lastQuad' = None
    /\ stmtRows' = 0
    /\ lastCall' = "reset"
    /\ UNCHANGED <<writer, written, calls, pos, results, driver>>

DecoderNext ==
    \/ \E row \in DecoderRows : ProcessRow(row)
    \/ Reset

DecoderSpec == DecoderInit /\ [][DecoderNext]_vars

(***************************************************************************)
(* The streaming driver: parse(stream) as an async generator.  The driver  *)
(* record holds the chunks the stream delivers before it closes, the       *)
(* generator's state (suspendedStart, awaitingRead: executing and waiting  *)
(* for reader.read(), suspendedYield, completed), whether the reader lock  *)
(* is held, the rows handed to processRow, the positions that yielded, and *)
(* for a consumer that called return(): the position, the generator state  *)
(* and the parser at that moment.  A return() that arrives while the       *)
(* generator waits for a read is queued and takes effect at the next       *)
(* yield, as the language defines for async generators.                    *)
(***************************************************************************)
\* the quads the driver's streams are written from
DriverQuads ==
    {TestQ1, TestQ2,
     quad(blankNode("b1"), namedNode(ExP), literalTyped("42", XSD_INTEGER), defaultGraph)}

\* chunks = [...writer.write(q1), ...writer.write(q2)]
RECURSIVE WriteAll(_, _, _)
WriteAll(w, qs, acc) ==
    IF qs = <<>> THEN [w |-> w, calls |-> acc]
    ELSE LET r == write(w, Head(qs))
         IN WriteAll(r.w, Tail(qs), Append(acc, r.buffers))

QuadSeqs == UNION {[1..n -> DriverQuads] : n \in 0..MaxWrites}

\* mutant: the quad processRow returns is dropped
yields_Never(outcome) == FALSE

\* `if (q) yield q`
yields(outcome) == IsSet(outcome.result)

\* a stream that delivers the writer's chunks, or the first few of them, and
\* then closes; a fresh parser; parse(stream) called and not yet pulled
DriverInit ==
    /\ written \in QuadSeqs
    /\ LET all == WriteAll(NewWriter(DefaultOptions), written, <<>>)
       IN /\ writer = all.w
          /\ calls = all.calls
          /\ \E n \in 0..Len(Flatten(all.calls)) :
                 driver = [NoDriver EXCEPT !.stream = SubSeq(Flatten(all.calls), 1, n)]
    /\ parser = NewParser
    /\ pos = 0
    /\ results = <<>>
    /\ lastRow = None
    /\ lastResult = Returned(None)
    /\ lastQuad = None
    /\ lastCall = "none"
    /\ stmtRows = 0

\* the consumer asks for the next quad: the generator starts (getReader) or
\* resumes from its yield and runs to `await reader.read()`
Pull ==
    /\ driver.state \in {"suspendedStart", "suspendedYield"}
    /\ driver.returnAt = -1
    /\ driver' = [driver EXCEPT !.state = "awaitingRead", !.locked = TRUE]
    /\ UNCHANGED <<writer, written, calls, parser, pos, results, lastRow, lastResult,
                   lastQuad, lastCall, stmtRows>>

\* reader.read() resolves with a chunk: decode, processRow, `if (q) yield q`;
\* a queued return() runs the finally block at the yield
ReadChunk ==
    /\ driver.state = "awaitingRead"
    /\ pos < Len(driver.stream)
    /\ LET row == RowDecode(driver.stream[pos + 1])
           r == processRow(parser, row)
           y == yields(r.outcome)
           returning == y /\ driver.returnAt # -1
       IN /\ parser' = r.p
          /\ lastRow' = Some(row)
          /\ lastResult' = r.outcome
          /\ results' = IF y THEN Append(results, Val(r.outcome.result)) ELSE results
          /\ lastQuad' = IF IsSet(r.outcome.result) THEN r.outcome.result ELSE lastQuad
          /\ stmtRows' = IF IsStatementRow(row) THEN Bump(stmtRows) ELSE stmtRows
          /\ driver' = [driver EXCEPT
                            !.fed = Append(@, row),
                            !.yieldedAt = IF y THEN Append(@, pos + 1) ELSE @,
                            !.state = IF ~y THEN "awaitingRead"
                                      ELSE IF returning THEN "completed"
                                      ELSE "suspendedYield",
                            !.locked = ~returning]
    /\ pos' = pos + 1
    /\ lastCall' = "processRow"
    /\ UNCHANGED <<writer, written, calls>>

\* reader.read() resolves with done: break, finally releaseLock
ReadDone ==
    /\ driver.state = "awaitingRead"
    /\ pos = Len(driver.stream)
    /\ driver' = [driver EXCEPT !.state = "completed", !.locked = FALSE]
    /\ UNCHANGED <<writer, written, calls, parser, pos, results, lastRow, lastResult,
                   lastQuad, lastCall, stmtRows>>

\* the consumer stops: return() on the generator.  Before the first pull the
\* body never runs; at a yield the finally block runs; during a read the
\* request is queued
Return ==
    /\ driver.returnAt = -1
    /\ driver.state # "completed"
    /\ driver' = [driver EXCEPT
                      !.returnAt = pos,
                      !.returnFrom = driver.state,
                      !.parserAt = parser,
                      !.state = IF driver.state = "awaitingRead" THEN @ ELSE "completed",
                      !.locked = IF driver.state = "suspendedYield" THEN FALSE ELSE @]
    /\ UNCHANGED <<writer, written, calls, parser, pos, results, lastRow, lastResult,
                   lastQuad, lastCall, stmtRows>>

DriverNext ==
    \/ Pull
    \/ ReadChunk
    \/ ReadDone
    \/ Return

\* the stream delivers each of its chunks and then closes, and a consumer
\* that has not stopped pulls again (`for await`)
DriverSpec ==
    /\ DriverInit
    /\ [][DriverNext]_vars
    /\ WF_vars(Pull)
    /\ WF_vars(ReadChunk)
    /\ WF_vars(ReadDone)

(***************************************************************************)
(* Reading the stream and the rows                                         *)
(***************************************************************************)
DecodeAll(bufs) == [i \in 1..Len(bufs) |-> RowDecode(bufs[i])]

\* the rows on the stream, and the rows one write call returned
wire == DecodeAll(chunks)
CallRows(k) == DecodeAll(calls[k])

\* the statement message of a statement row and the roles it has slots for
Message(row) == IF IsSet(row.quad) THEN Val(row.quad) ELSE Val(row.triple)
Roles(row) == IF IsSet(row.quad) THEN {"s", "p", "o", "g"} ELSE {"s", "p", "o"}
SlotOf(msg, role) ==
    CASE role = "s" -> msg.s [] role = "p" -> msg.p
      [] role = "o" -> msg.o [] role = "g" -> msg.g
TermOf(q, role) ==
    CASE role = "s" -> q.subject [] role = "p" -> q.predicate
      [] role = "o" -> q.object [] role = "g" -> q.graph

IsAbsent(slot) == slot = EmptySlot

\* the slots of a statement row, those of its triple terms included
RECURSIVE SlotsIn(_, _)
SlotsIn(msg, roles) ==
    UNION {{SlotOf(msg, r)} \cup
           (IF IsSet(SlotOf(msg, r).TripleTerm)
            THEN SlotsIn(Val(SlotOf(msg, r).TripleTerm), {"s", "p", "o"})
            ELSE {}) : r \in roles}
RowSlots(row) == SlotsIn(Message(row), Roles(row))

NameIdsOf(row) == {Val(sl.Iri).nameId : sl \in {x \in RowSlots(row) : IsSet(x.Iri)}}
PrefixIdsOf(row) == {Val(sl.Iri).prefixId : sl \in {x \in RowSlots(row) : IsSet(x.Iri)}}
DatatypeIdsOf(row) ==
    {Val(Val(sl.Literal).datatype) :
        sl \in {x \in RowSlots(row) : IsSet(x.Literal) /\ IsSet(Val(x.Literal).datatype)}}

Injective(m) == \A a, b \in DOMAIN m : m[a] = m[b] => a = b
Extends(old, new) == \A k \in DOMAIN old : k \in DOMAIN new /\ new[k] = old[k]

(***************************************************************************)
(* C1  Round trip: once the parser has read every chunk the writer has     *)
(* produced for a sequence of standard quads, the quads it has yielded are *)
(* exactly the quads written, in order, equal term for term.               *)
(***************************************************************************)
C1_RoundTrip ==
    ((\A i \in 1..Len(written) : IsStandardQuad(written[i])) /\ pos = Len(chunks))
        => results = written

\* two quads that repeat subject, predicate and graph, the second with a typed
\* literal, written and read back
C1_Witness ==
    /\ Len(written) = 2 /\ pos = Len(chunks) /\ Len(results) = 2
    /\ \A i \in 1..2 : IsStandardQuad(written[i])
    /\ written[1].subject = written[2].subject
    /\ written[1].predicate = written[2].predicate
    /\ written[1].graph = written[2].graph
    /\ written[1].object.language = "en"
    /\ results[2].object.datatype = XSD_INTEGER

(***************************************************************************)
(* C2  First row: the stream holds exactly one options row, it is the      *)
(* first row of the first write's output, and no later write returns one.  *)
(***************************************************************************)
C2_FirstRow ==
    calls # <<>> =>
        /\ IsOptionsRow(CallRows(1)[1])
        /\ \A i \in 2..Len(CallRows(1)) : ~IsOptionsRow(CallRows(1)[i])
        /\ \A k \in 2..Len(calls) : \A i \in 1..Len(CallRows(k)) : ~IsOptionsRow(CallRows(k)[i])
        /\ Cardinality({i \in 1..Len(wire) : IsOptionsRow(wire[i])}) = 1
        /\ IsOptionsRow(wire[1])

C2_Witness == Len(calls) = 2 /\ Len(calls[2]) >= 2

(***************************************************************************)
(* C3  Updates precede references: every name id and datatype id carried   *)
(* by a statement row on the stream was announced by a name / datatype     *)
(* update row with that id at a strictly earlier position.                 *)
(***************************************************************************)
C3_UpdatesPrecede ==
    \A i \in 1..Len(wire) :
        IsStatementRow(wire[i]) =>
            /\ \A id \in NameIdsOf(wire[i]) :
                   \E j \in 1..(i - 1) : IsSet(wire[j].name) /\ Val(wire[j].name).id = id
            /\ \A id \in DatatypeIdsOf(wire[i]) :
                   \E j \in 1..(i - 1) : IsSet(wire[j].datatype) /\ Val(wire[j].datatype).id = id

\* the second statement refers to an id announced during the first call and to
\* one announced during its own, and carries a datatype id
C3_Witness ==
    /\ Len(calls) = 2
    /\ LET row == CallRows(2)[Len(calls[2])]
       IN /\ 1 \in NameIdsOf(row)
          /\ \E i \in 1..Len(calls[2]) : IsSet(CallRows(2)[i].name)
                                         /\ Val(CallRows(2)[i].name).id \in NameIdsOf(row)
          /\ DatatypeIdsOf(row) # {}

(***************************************************************************)
(* C4  Table monotonicity: each writer table maps distinct strings to      *)
(* distinct ids, and a write never changes or removes a binding.           *)
(***************************************************************************)
C4_TableMonotonic ==
    [][/\ Injective(writer'.nameTable) /\ Extends(writer.nameTable, writer'.nameTable)
       /\ Injective(writer'.datatypeTable) /\ Extends(writer.datatypeTable, writer'.datatypeTable)
       /\ Injective(writer'.prefixTable) /\ Extends(writer.prefixTable, writer'.prefixTable)]_vars

C4_Witness ==
    /\ Cardinality(DOMAIN writer.nameTable) >= 2
    /\ Cardinality(DOMAIN writer.datatypeTable) = 2
    /\ Len(written) = 2

(***************************************************************************)
(* C5  Failure on desync: processRow on a statement row that refers to a   *)
(* name id, a non-zero prefix id or a datatype id that is not in the       *)
(* parser's table fails with an error.                                     *)
(***************************************************************************)
RefersToUnregistered(p, row) ==
    \/ \E id \in NameIdsOf(row) : ~MapHas(p.nameTable, id)
    \/ \E id \in PrefixIdsOf(row) : id # 0 /\ ~MapHas(p.prefixTable, id)
    \/ \E id \in DatatypeIdsOf(row) : ~MapHas(p.datatypeTable, id)

\* a statement row leaves the tables as they were, so the tables after the call
\* are the tables the row was resolved against
C5_DesyncFails ==
    (IsSet(lastRow) /\ IsStatementRow(Val(lastRow))
        /\ RefersToUnregistered(parser, Val(lastRow)))
        => lastResult.threw

(***************************************************************************)
(* C6  Elision with no predecessor: on a parser that has processed no      *)
(* statement row since it was constructed or reset, processRow on a        *)
(* statement row with an absent slot fails.                                *)
(***************************************************************************)
HasAbsentSlot(row) == \E r \in Roles(row) : IsAbsent(SlotOf(Message(row), r))

C6_FirstElisionFails ==
    (IsSet(lastRow) /\ IsStatementRow(Val(lastRow)) /\ stmtRows = 1
        /\ HasAbsentSlot(Val(lastRow)))
        => lastResult.threw

(***************************************************************************)
(* C7  Decoder elision: processRow on a statement row that follows an      *)
(* earlier statement row fills each absent slot with the term the previous *)
(* returned quad had in that position, and afterwards the four cached      *)
(* previous terms are the four terms of the quad it returned.              *)
(***************************************************************************)
FilledFromPrevious(row, before, after) ==
    \A r \in Roles(row) :
        IsAbsent(SlotOf(Message(row), r)) => TermOf(after, r) = TermOf(before, r)

CacheIs(p, q) ==
    /\ p.previousSubject = q.subject
    /\ p.previousPredicate = q.predicate
    /\ p.previousObject = q.object
    /\ p.previousGraph = q.graph

C7_DecoderElision ==
    [][\A row \in StatementRows :
          (ProcessRow(row) /\ IsSet(lastQuad)) =>
              /\ IsSet(lastResult'.result)
              /\ FilledFromPrevious(row, Val(lastQuad), Val(lastResult'.result))
              /\ CacheIs(parser', Val(lastResult'.result))]_vars

(***************************************************************************)
(* C8  Encoder elision, as claimed: when a quad has the same graph as the  *)
(* quad written just before it, its statement row has the graph slot       *)
(* absent, and the parser reconstructs the identical graph.                *)
(***************************************************************************)
\* the statement message a write call returned (its last row)
StatementOf(k) == Message(CallRows(k)[Len(calls[k])])

C8_EncoderElides ==
    \A k \in 2..Len(written) :
        written[k].graph = written[k - 1].graph =>
            /\ IsAbsent(StatementOf(k).g)
            /\ Len(results) >= k => results[k].graph = written[k].graph

(***************************************************************************)
(* C8 (amended)  The writer does not elide: when a quad has the same graph *)
(* (an IRI, a blank node or the default graph) as the quad written just    *)
(* before it, its statement row still carries the graph slot explicitly,   *)
(* and the parser reconstructs the identical graph from that slot.         *)
(***************************************************************************)
C8_GraphExplicit ==
    \A k \in 2..Len(written) :
        (/\ written[k].graph = written[k - 1].graph
         /\ written[k].graph.termType \in {"NamedNode", "BlankNode", "DefaultGraph"}) =>
            /\ ~IsAbsent(StatementOf(k).g)
            /\ IsDefined(convertTerm(NewParser, StatementOf(k).g, "g"))
            /\ Len(results) >= k => results[k].graph = written[k].graph

C8_Witness ==
    /\ Len(written) = 2 /\ Len(results) = 2
    /\ written[2].graph = written[1].graph
    /\ written[2].graph.termType = "NamedNode"
    /\ results[2].graph = written[2].graph

(***************************************************************************)
(* C9  Shape of one write: the rows a write call returns are an options    *)
(* row (first call only), then table-update rows, then exactly one         *)
(* statement row, which is last and is the row of the quad of that call.   *)
(***************************************************************************)
SlotDescribes(slot, t, role) ==
    CASE t.termType = "NamedNode" ->
             MapHas(writer.nameTable, t.value) /\ slot = IriSlot(0, writer.nameTable[t.value])
      [] t.termType = "BlankNode" /\ role # "p" -> slot = BnodeSlot(t.value)
      [] t.termType = "Literal" /\ role = "o" ->
             IsSet(slot.Literal) /\ Val(slot.Literal).lex = t.value
      [] t.termType = "DefaultGraph" /\ role = "g" -> slot = DefaultGraphSlot
      [] OTHER -> IsAbsent(slot)

C9_WriteShape ==
    \A k \in 1..Len(calls) :
        LET rows == CallRows(k)
            n == Len(rows)
        IN /\ n >= 1
           /\ IsStatementRow(rows[n])
           /\ \A r \in {"s", "p", "o", "g"} :
                  SlotDescribes(SlotOf(Message(rows[n]), r), TermOf(written[k], r), r)
           /\ IsOptionsRow(rows[1]) <=> k = 1
           /\ \A i \in 1..(n - 1) :
                  /\ ~IsStatementRow(rows[i])
                  /\ IsOptionsRow(rows[i]) => i = 1
                  /\ ~IsOptionsRow(rows[i]) => IsUpdateRow(rows[i])

\* a first call that returns options, updates and a statement, and a second
\* call that returns the statement row alone
C9_Witness ==
    /\ Len(calls) = 2
    /\ Len(calls[1]) >= 4
    /\ Len(calls[2]) = 1

(***************************************************************************)
(* C10  Unsupported term kinds: with generalizedStatements false, a write  *)
(* of a quad whose subject is a literal or whose predicate is not an IRI   *)
(* fails and returns no statement row.                                     *)
(***************************************************************************)
IsGeneralized(q) ==
    q.subject.termType = "Literal" \/ q.predicate.termType # "NamedNode"

C10_UnsupportedFails ==
    \A k \in 1..Len(written) :
        (~writer.options.generalizedStatements /\ IsGeneralized(written[k])) =>
            \A i \in 1..Len(calls[k]) : ~IsStatementRow(CallRows(k)[i])

(***************************************************************************)
(* C11  Literal encoding: the literal of a statement row carries the       *)
(* language tag and no datatype id for a language-tagged literal, neither  *)
(* for an XSD string literal, and otherwise the datatype-table id of its   *)
(* datatype IRI, announced by a datatype update row before the statement   *)
(* row of the first write that met that IRI.  Never both.                  *)
(***************************************************************************)
HasDatatypeRef(t) ==
    t.termType = "Literal" /\ t.language = "" /\ t.datatype # XSD_STRING

\* the first write whose object refers to datatype dt
FirstUse(dt) ==
    CHOOSE k \in 1..Len(written) :
        /\ HasDatatypeRef(written[k].object) /\ written[k].object.datatype = dt
        /\ \A j \in 1..(k - 1) :
               ~(HasDatatypeRef(written[j].object) /\ written[j].object.datatype = dt)

C11_LiteralEncoding ==
    \A k \in 1..Len(written) :
        written[k].object.termType = "Literal" =>
            LET t == written[k].object
                slot == StatementOf(k).o
                lit == Val(slot.Literal)
            IN /\ IsSet(slot.Literal)
               /\ lit.lex = t.value
               /\ ~(IsSet(lit.langtag) /\ IsSet(lit.datatype))
               /\ t.language # "" => (lit.langtag = Some(t.language) /\ lit.datatype = None)
               /\ (t.language = "" /\ t.datatype = XSD_STRING) =>
                      (lit.langtag = None /\ lit.datatype = None)
               /\ HasDatatypeRef(t) =>
                      /\ lit.langtag = None
                      /\ MapHas(writer.datatypeTable, t.datatype)
                      /\ lit.datatype = Some(writer.datatypeTable[t.datatype])
                      /\ \E i \in 1..(Len(calls[FirstUse(t.datatype)]) - 1) :
                             CallRows(FirstUse(t.datatype))[i]
                                 = DatatypeRow(writer.datatypeTable[t.datatype], t.datatype)
                      /\ \A j \in 1..Len(calls) : \A i \in 1..Len(calls[j]) :
                             (IsSet(CallRows(j)[i].datatype)
                                 /\ Val(CallRows(j)[i].datatype).value = t.datatype)
                                 => j = FirstUse(t.datatype)

\* two writes of a typed literal: the second returns its statement row alone,
\* the datatype having been announced by the first
C11_Witness ==
    /\ Len(written) = 2
    /\ written[1].object = literalTyped("42", XSD_INTEGER)
    /\ written[2].object = literalTyped("42", XSD_INTEGER)
    /\ Len(calls[2]) = 1

\* a language-tagged literal, then a plain one
C11_WitnessLang ==
    /\ Len(written) = 2
    /\ written[1].object = literalLang("x", "en")
    /\ written[2].object = literalPlain("x")

(***************************************************************************)
(* C12  processRow result and frame: an update row or an options row makes *)
(* processRow return null and leaves the four previous terms unchanged; a  *)
(* statement row makes it return one quad and leaves the three tables      *)
(* unchanged.  The tables change only by update rows and by reset.         *)
(***************************************************************************)
Tables(p) == <<p.prefixTable, p.nameTable, p.datatypeTable>>
Cache(p) == <<p.previousSubject, p.previousPredicate, p.previousObject, p.previousGraph>>

C12_ResultAndFrame ==
    [][/\ lastCall' = "processRow" =>
              LET row == Val(lastRow')
              IN /\ (IsUpdateRow(row) \/ IsOptionsRow(row)) =>
                        (lastResult'.result = None /\ Cache(parser') = Cache(parser))
                 /\ IsStatementRow(row) =>
                        (Len(lastResult'.result) = 1 /\ Tables(parser') = Tables(parser))
       /\ Tables(parser') # Tables(parser) =>
              \/ lastCall' = "reset"
              \/ lastCall' = "processRow" /\ IsUpdateRow(Val(lastRow'))]_vars

\* an options row and a name update processed after a quad was returned, and a
\* statement row processed with filled tables
C12_Witness ==
    /\ lastCall = "processRow"
    /\ IsOptionsRow(Val(lastRow))
    /\ lastResult.result = None
    /\ IsSet(lastQuad)
    /\ IsDefined(parser.previousSubject)
    /\ DOMAIN parser.nameTable = {1, 2}

(***************************************************************************)
(* C13  reset restores the initial state: after reset() the three tables   *)
(* are empty and the four previous terms unset, so the parser is the       *)
(* parser a constructor call gives and treats every row as that one does.  *)
(***************************************************************************)
C13_ResetRestores ==
    lastCall = "reset" =>
        /\ parser.prefixTable = EmptyMap
        /\ parser.nameTable = EmptyMap
        /\ parser.datatypeTable = EmptyMap
        /\ Cache(parser) = <<Undefined, Undefined, Undefined, Undefined>>
        /\ parser = NewParser
        /\ \A row \in DecoderRows : processRow(parser, row) = processRow(NewParser, row)

C13_Witness == lastCall = "reset"

(***************************************************************************)
(* C14  Statement row variant: the statement row of a write is a Triple    *)
(* row when the quad's graph is the default graph and the writer's         *)
(* physicalType is TRIPLES, and a Quad row in every other case.            *)
(***************************************************************************)
C14_RowVariant ==
    \A k \in 1..Len(calls) :
        LET row == CallRows(k)[Len(calls[k])]
        IN IF writer.options.physicalType = PHYSICAL_STREAM_TYPE_TRIPLES
              /\ written[k].graph = defaultGraph
           THEN IsSet(row.triple) /\ ~IsSet(row.quad)
           ELSE IsSet(row.quad) /\ ~IsSet(row.triple)

(***************************************************************************)
(* C15  Example scenario: a fresh writer that writes the two quads of the  *)
(* round-trip test emits the name rows (1, http://ex.org/s) and            *)
(* (2, http://ex.org/p) before the first statement row, and its third name *)
(* row, (3, http://ex.org/p2), between the first and the second statement  *)
(* row.  (The graph IRI of the second quad follows as a fourth.)           *)
(***************************************************************************)
NameRowsOf(rows) == SelectSeq(rows, LAMBDA r : IsSet(r.name))
DatatypeRowsOf(rows) == SelectSeq(rows, LAMBDA r : IsSet(r.datatype))
StatementPositions(rows) == {i \in 1..Len(rows) : IsStatementRow(rows[i])}

C15_Example ==
    written = <<TestQ1, TestQ2>> =>
        LET first == CallRows(1)
            second == CallRows(2)
        IN /\ StatementPositions(first) = {Len(first)}
           /\ StatementPositions(second) = {Len(second)}
           /\ NameRowsOf(first) = <<NameRow(1, ExS), NameRow(2, ExP)>>
           /\ NameRowsOf(second) # <<>>
           /\ NameRowsOf(second)[1] = NameRow(3, ExP2)
           /\ NameRowsOf(wire)[3] = NameRow(3, ExP2)
           /\ NameRowsOf(second) = <<NameRow(3, ExP2), NameRow(4, ExG)>>

C15_Witness ==
    /\ written = <<TestQ1, TestQ2>>
    /\ Len(calls) = 2
    /\ Cardinality(StatementPositions(wire)) = 2

(***************************************************************************)
(* C18  ID allocation discipline: a write announces a string in a name     *)
(* (datatype) update row exactly when the string is not yet in the table,  *)
(* once even when it occurs in several slots of the quad; ids are 1, 2, 3, *)
(* ... in order of first occurrence, the ids in use are exactly            *)
(* 1..size, the counter is size + 1 and 0 is never assigned.               *)
(***************************************************************************)
RoleOrder == <<"s", "p", "o", "g">>

\* the values of seq not in seen, each once, in order of first occurrence
RECURSIVE FirstOccurrences(_, _)
FirstOccurrences(seq, seen) ==
    IF seq = <<>> THEN <<>>
    ELSE IF Head(seq) \in seen THEN FirstOccurrences(Tail(seq), seen)
    ELSE <<Head(seq)>> \o FirstOccurrences(Tail(seq), seen \cup {Head(seq)})

\* the IRIs of a quad's four terms, in slot order
IrisOf(q) ==
    LET terms == [i \in 1..4 |-> TermOf(q, RoleOrder[i])]
        iris == SelectSeq(terms, LAMBDA t : t.termType = "NamedNode")
    IN [i \in 1..Len(iris) |-> iris[i].value]

\* the datatype IRI convertLiteral registers for a quad's object, if any
DatatypesOf(q) ==
    IF q.object.termType = "Literal" /\ q.object.language = ""
       /\ q.object.datatype # "" /\ q.object.datatype # XSD_STRING
    THEN <<q.object.datatype>>
    ELSE <<>>

NamesAnnouncedBefore(k) ==
    UNION {{Val(NameRowsOf(CallRows(j))[i].name).value : i \in 1..Len(NameRowsOf(CallRows(j)))}
           : j \in 1..(k - 1)}
DatatypesAnnouncedBefore(k) ==
    UNION {{Val(DatatypeRowsOf(CallRows(j))[i].datatype).value
            : i \in 1..Len(DatatypeRowsOf(CallRows(j)))} : j \in 1..(k - 1)}

DenseTable(table, counter, announced) ==
    /\ \A i \in 1..Len(announced) : announced[i].id = i
    /\ DOMAIN table = {announced[i].value : i \in 1..Len(announced)}
    /\ \A i \in 1..Len(announced) : table[announced[i].value] = i
    /\ {table[v] : v \in DOMAIN table} = 1..Cardinality(DOMAIN table)
    /\ counter = Cardinality(DOMAIN table) + 1
    /\ \A v \in DOMAIN table : table[v] # 0

C18_IdDiscipline ==
    LET names == NameRowsOf(wire)
        dts == DatatypeRowsOf(wire)
    IN /\ DenseTable(writer.nameTable, writer.nameCounter,
                     [i \in 1..Len(names) |-> Val(names[i].name)])
       /\ DenseTable(writer.datatypeTable, writer.datatypeCounter,
                     [i \in 1..Len(dts) |-> Val(dts[i].datatype)])
       /\ \A k \in 1..Len(calls) :
              /\ [i \in 1..Len(NameRowsOf(CallRows(k))) |->
                      Val(NameRowsOf(CallRows(k))[i].name).value]
                 = FirstOccurrences(IrisOf(written[k]), NamesAnnouncedBefore(k))
              /\ [i \in 1..Len(DatatypeRowsOf(CallRows(k))) |->
                      Val(DatatypeRowsOf(CallRows(k))[i].datatype).value]
                 = FirstOccurrences(DatatypesOf(written[k]), DatatypesAnnouncedBefore(k))

\* a quad that has one IRI in two slots, then a quad that repeats a
\* registered IRI and brings two new ones
C18_Witness ==
    /\ Len(calls) = 2
    /\ written[1].subject = written[1].object
    /\ written[1].subject.termType = "NamedNode"
    /\ Len(NameRowsOf(CallRows(1))) = 2
    /\ Len(NameRowsOf(CallRows(2))) = 2
    /\ written[2].subject = written[1].subject

(***************************************************************************)
(* C19  Prefix id 0: the parser resolves an IRI reference with prefixId 0  *)
(* to the empty prefix whatever it has processed before, so the IRI it     *)
(* returns for such a slot is exactly the name-table string of the         *)
(* reference's name id.                                                    *)
(***************************************************************************)
C19_PrefixZeroEmpty ==
    (lastCall = "processRow" /\ IsSet(lastRow) /\ IsStatementRow(Val(lastRow))
     /\ IsSet(lastResult.result)) =>
        \A r \in Roles(Val(lastRow)) :
            LET slot == SlotOf(Message(Val(lastRow)), r)
            IN (IsSet(slot.Iri) /\ Val(slot.Iri).prefixId = 0) =>
                   TermOf(Val(lastResult.result), r) =
                       namedNode(GetOrEmpty(parser.nameTable, Val(slot.Iri).nameId))

(***************************************************************************)
(* C20  Table ceilings: the writer's name table never holds more than      *)
(* maxNameTableSize entries nor its datatype table more than               *)
(* maxDatatypeTableSize, and no update row on the stream carries an id     *)
(* above its ceiling.                                                      *)
(***************************************************************************)
C20_Ceilings ==
    /\ Cardinality(DOMAIN writer.nameTable) <= writer.options.maxNameTableSize
    /\ Cardinality(DOMAIN writer.datatypeTable) <= writer.options.maxDatatypeTableSize
    /\ \A i \in 1..Len(wire) :
           /\ IsSet(wire[i].name) => Val(wire[i].name).id <= writer.options.maxNameTableSize
           /\ IsSet(wire[i].datatype) =>
                  Val(wire[i].datatype).id <= writer.options.maxDatatypeTableSize

(***************************************************************************)
(* C16  Streaming driver: parse decodes one row per chunk and hands the    *)
(* rows to processRow in arrival order, yields one quad per statement row  *)
(* in that order and nothing for other rows, never fails, and completes    *)
(* once the stream has closed (having yielded nothing when the stream      *)
(* holds no statement row), releasing the reader lock.                     *)
(***************************************************************************)
C16_Order ==
    /\ pos <= Len(driver.stream)
    /\ driver.fed = [i \in 1..pos |-> RowDecode(driver.stream[i])]
    /\ Len(driver.yieldedAt) = Cardinality(StatementPositions(driver.fed))
    /\ \A j \in 1..Len(driver.yieldedAt) :
           /\ driver.yieldedAt[j] \in StatementPositions(driver.fed)
           /\ \A i \in 1..(j - 1) : driver.yieldedAt[i] < driver.yieldedAt[j]
    /\ Len(results) = Len(driver.yieldedAt)
    /\ results = SubSeq(written, 1, Len(results))
    /\ ~lastResult.threw
    /\ driver.state = "completed" => ~driver.locked
    /\ (driver.state = "completed" /\ driver.returnAt = -1) =>
           /\ pos = Len(driver.stream)
           /\ Len(results) = Cardinality(StatementPositions(DecodeAll(driver.stream)))
           /\ StatementPositions(DecodeAll(driver.stream)) = {} => results = <<>>

C16_Driver == [](C16_Order) /\ <>(driver.state = "completed")

\* the whole output of two writes read to the end
C16_Witness ==
    /\ driver.state = "completed"
    /\ driver.returnAt = -1
    /\ Len(written) = 2
    /\ driver.stream = chunks
    /\ pos = Len(driver.stream)
    /\ Len(results) = 2
    /\ ~driver.locked

\* a stream that closes after update rows alone
C16_WitnessNoStatement ==
    /\ driver.state = "completed"
    /\ driver.returnAt = -1
    /\ pos = Len(driver.stream)
    /\ pos >= 2
    /\ results = <<>>

(***************************************************************************)
(* C17  Cancellation: once the consumer has called return() on the         *)
(* generator, at a yield or while it waits for the next chunk, no further  *)
(* row is processed, the parser stays as it was at that moment and the     *)
(* reader lock is released.                                                *)
(***************************************************************************)
C17_CancelStops ==
    driver.returnAt # -1 =>
        /\ pos = driver.returnAt
        /\ parser = driver.parserAt
        /\ ~driver.locked

\* rows processed, and tables changed, after a return() that arrived during a
\* read
C17_ProcessedAfterReturn ==
    /\ driver.returnAt # -1
    /\ driver.returnFrom = "awaitingRead"
    /\ pos > driver.returnAt + 1
    /\ parser.nameTable # driver.parserAt.nameTable

====
